---- MODULE Spec2Model ----
(***************************************************************************)
(* State-machine model of the training / checkpoint / inference control    *)
(* loops of pytorch-seq2seq:                                               *)
(*   - train.py   (__main__ epoch loop with patience / early stopping)     *)
(*   - solver.py  (Solver.init_training, Solver.train, Solver.train_epoch, *)
(*                 Solver.validate, Solver.translate)                      *)
(* One behaviour runs one program: prog is chosen in Init.  The Solver     *)
(* program may be run several times (and aborted) against one checkpoint   *)
(* directory, and Solver.translate reads that directory.                   *)
(***************************************************************************)
EXTENDS Integers, Sequences, FiniteSets

(* ---------- bounds of the model ---------- *)
MaxEpochs == 4          \* args.n_epochs ranges over 0..MaxEpochs
MaxPatience == 2        \* args.patience ranges over 0..MaxPatience
NumTrainBatches == 2    \* len(train_iterator)
NumValBatches == 2      \* len(val_iterator)
MaxLoss == 2            \* a batch loss is one of MaxLoss distinct values
MaxGrad == 3            \* gradient norm produced by one backward pass: 1..MaxGrad
args_grad_clip == 2     \* args.grad_clip (train.py) / args.clip (solver.py)
NumDatasets == 2        \* corpora a training run may be started on
MaxExamples == 3        \* test examples handed to Solver.translate
args_batch_size == 2    \* args.batch_size: sequences of a batch
TokensPerSeq == 2       \* target tokens of a sequence

VARIABLES
  prog,              \* "train_py" | "solver"
  pc,                \* position of the running process
  n_epochs,          \* args.n_epochs
  args_patience,     \* args.patience (train.py only)
  epoch,             \* epochs started so far (train.py: the loop variable)
  batch,             \* training batches started in this epoch
  vbatch,            \* validation batches processed in this pass
  grad,              \* global norm of the accumulated .grad of the parameters
  grad_src,          \* the <<epoch, batch>> backward passes accumulated in .grad
  params,            \* model parameters, as the number of updates applied
  opt_steps,         \* optimizer (Adam) state, as its step count
  val_loss,          \* running / final validation loss of this epoch
  acc_loss,          \* running training loss (train.py acc_loss, train_epoch epoch_loss)
  total_toks,        \* train.py: running token count of the current pass
  total_seqs,        \* train.py: running sequence count of the current pass
  best_val_loss,     \* best validation loss so far
  patience,          \* train.py patience counter
  exit_via,          \* how the train.py loop was left: "none" | "exhausted" | "break"
  model_pkl,         \* train.py: experiments/test/model.pkl
  val_hist,          \* history: validation loss of every decided epoch
  patience_hist,     \* history: patience counter after every decided epoch
  saved_at,          \* history: epochs at which the parameter file was written
  data,              \* solver: corpus (vocabulary) of the current run
  best_val_loss_epoch, \* solver: index of the best epoch
  model_dict_pkl,    \* solver: ckp_path/model_dict.pkl
  model_pth,         \* solver: ckp_path/model.pth
  meta_writes,       \* history: writes of model_dict.pkl in this run
  pth_writes,        \* history: writes of model.pth in this run
  t_N,               \* translate: number of test examples
  output_seqs,       \* translate: decoded id sequences
  decoded,           \* translate: batches decoded
  sink,              \* translate: lines of data/output.en
  sink_opened,       \* translate: data/output.en was opened for writing
  err                \* translate: the exception that ended it, or "none"

trainVars == <<epoch, batch, vbatch, grad, grad_src, params, opt_steps, val_loss,
               best_val_loss, val_hist, saved_at>>
mainVars == <<args_patience, patience, exit_via, model_pkl, patience_hist>>
ckpVars == <<model_dict_pkl, model_pth>>
runVars == <<data, best_val_loss_epoch, meta_writes, pth_writes>>
translateVars == <<t_N, output_seqs, decoded, sink, sink_opened, err>>
accVars == <<acc_loss, total_toks, total_seqs>>
vars == <<prog, pc, n_epochs, accVars, trainVars, mainVars, ckpVars, runVars, translateVars>>

(* ---------- values ---------- *)

\* float('inf'): greater than every finite loss an epoch can produce.
Inf == NumValBatches * MaxLoss + 1

\* A file of the checkpoint store: absent, opened for writing and not yet
\* written through ("partial"), or completely written.
NoFile == [st |-> "absent", data |-> 0, params |-> 0]

Min(a, b) == IF a <= b THEN a ELSE b

(* ---------- the gradient update steps (torch) ---------- *)

\* optimizer.zero_grad() left out: the accumulated gradient stays.
zero_grad_missing(g) == g

\* optimizer.zero_grad(): the accumulated gradient is cleared.
zero_grad(g) == 0

\* loss.backward(): the new gradient g is ADDED to the accumulated one.
backward(acc, g) == acc + g

\* clip_grad_norm_(parameters, max_norm): gradients are scaled so that their
\* global norm is at most max_norm; a smaller norm is left as it is.
clip_grad_norm_(g, max_norm) == IF g > max_norm THEN max_norm ELSE g

(* ======================================================================= *)
(*  train.py  __main__                                                     *)
(* ======================================================================= *)

\* the comparison written strictly
Main_improved_strict(v, best) == v < best

\* the comparison left out: every epoch is saved as the best
Main_improved_always(v, best) == TRUE

\* the comparison reversed
Main_improved_reversed(v, best) == v >= best

\* train.py:153   if val_loss <= best_val_loss
Main_improved(v, best) == v <= best

\* the break taken one epoch late
Main_should_break_late(p, limit) == p > limit

\* train.py:161   if patience >= args.patience: break
Main_should_break(p, limit) == p >= limit

\* the range one epoch too long
Main_range_off_by_one(e, n) == e <= n

\* train.py:105   for epoch in range(1, args.n_epochs+1): another epoch is left
Main_range_has_next(e, n) == e < n

\* loss.item() of a training batch.  The value steers no control flow; every
\* training batch is taken at the largest loss.
train_loss_item == MaxLoss

\* batch_output_len.shape[0] and int(batch_output_len.sum()) of a batch
batch_seqs == args_batch_size
batch_toks == args_batch_size * TokensPerSeq

\* the reset of line 107 left out
Main_accumulators_kept(a, t, q) == <<a, t, q>>

\* train.py:107  acc_loss, total_toks, total_seqs = 0., 0, 0
Main_reset_accumulators(a, t, q) == <<0, 0, 0>>

\* train.py:102-107  loop head: next epoch, model.train(), accumulators reset
Main_for_epoch ==
  /\ prog = "train_py" /\ pc = "for_epoch"
  /\ Main_range_has_next(epoch, n_epochs)
  /\ epoch' = epoch + 1
  /\ batch' = 0
  /\ LET r == Main_reset_accumulators(acc_loss, total_toks, total_seqs)
     IN acc_loss' = r[1] /\ total_toks' = r[2] /\ total_seqs' = r[3]
  /\ pc' = "train_loop"
  /\ UNCHANGED <<prog, n_epochs, vbatch, grad, grad_src, params, opt_steps, val_loss,
                 best_val_loss, val_hist, saved_at, mainVars, ckpVars, runVars,
                 translateVars>>

\* train.py:105  range exhausted: the loop ends and so does the script
Main_for_exhausted ==
  /\ prog = "train_py" /\ pc = "for_epoch"
  /\ ~Main_range_has_next(epoch, n_epochs)
  /\ pc' = "done"
  /\ exit_via' = "exhausted"
  /\ UNCHANGED <<prog, n_epochs, trainVars, args_patience, patience, model_pkl,
                 patience_hist, ckpVars, runVars, translateVars>>
  /\ UNCHANGED accVars

\* train.py:109-114  next training batch: forward pass and loss
Main_train_batch ==
  /\ prog = "train_py" /\ pc = "train_loop"
  /\ batch < NumTrainBatches
  /\ batch' = batch + 1
  /\ pc' = "zero_grad"
  /\ UNCHANGED <<prog, n_epochs, epoch, vbatch, grad, grad_src, params, opt_steps,
                 val_loss, best_val_loss, val_hist, saved_at, mainVars, ckpVars,
                 runVars, translateVars>>
  /\ UNCHANGED accVars

\* train.py:116  optimizer.zero_grad()
Main_zero_grad ==
  /\ prog = "train_py" /\ pc = "zero_grad"
  /\ grad' = zero_grad(grad)
  /\ grad_src' = IF grad' = 0 THEN {} ELSE grad_src
  /\ pc' = "backward"
  /\ UNCHANGED <<prog, n_epochs, epoch, batch, vbatch, params, opt_steps, val_loss,
                 best_val_loss, val_hist, saved_at, mainVars, ckpVars, runVars,
                 translateVars>>
  /\ UNCHANGED accVars

\* train.py:117  loss.backward()
Main_backward ==
  /\ prog = "train_py" /\ pc = "backward"
  /\ \E g \in 1..MaxGrad : grad' = backward(grad, g)
  /\ grad_src' = grad_src \cup {<<epoch, batch>>}
  /\ pc' = "clip"
  /\ UNCHANGED <<prog, n_epochs, epoch, batch, vbatch, params, opt_steps, val_loss,
                 best_val_loss, val_hist, saved_at, mainVars, ckpVars, runVars,
                 translateVars>>
  /\ UNCHANGED accVars

\* train.py:118  nn.utils.clip_grad_norm_(model.parameters(), args.grad_clip)
Main_clip ==
  /\ prog = "train_py" /\ pc = "clip"
  /\ grad' = clip_grad_norm_(grad, args_grad_clip)
  /\ pc' = "step"
  /\ UNCHANGED <<prog, n_epochs, epoch, batch, vbatch, grad_src, params, opt_steps,
                 val_loss, best_val_loss, val_hist, saved_at, mainVars, ckpVars,
                 runVars, translateVars>>
  /\ UNCHANGED accVars

\* train.py:119-126  optimizer.step(), then the running statistics
Main_step ==
  /\ prog = "train_py" /\ pc = "step"
  /\ params' = params + 1
  /\ opt_steps' = opt_steps + 1
  /\ total_toks' = total_toks + batch_toks
  /\ total_seqs' = total_seqs + batch_seqs
  /\ acc_loss' = acc_loss + train_loss_item
  /\ pc' = "train_loop"
  /\ UNCHANGED <<prog, n_epochs, epoch, batch, vbatch, grad, grad_src, val_loss,
                 best_val_loss, val_hist, saved_at, mainVars, ckpVars, runVars,
                 translateVars>>

\* train.py:128-132  training batches exhausted: model.eval(), val_loss = 0.
Main_validation ==
  /\ prog = "train_py" /\ pc = "train_loop"
  /\ batch = NumTrainBatches
  /\ val_loss' = 0
  /\ total_toks' = 0 /\ total_seqs' = 0
  /\ vbatch' = 0
  /\ pc' = "val_loop"
  /\ UNCHANGED <<prog, n_epochs, epoch, batch, grad, grad_src, params, opt_steps,
                 best_val_loss, val_hist, saved_at, mainVars, ckpVars, runVars,
                 translateVars, acc_loss>>

\* train.py:133-150  one validation batch under torch.no_grad():
\* forward pass, loss (reduction='sum'), val_loss += loss.item()
Main_val_batch ==
  /\ prog = "train_py" /\ pc = "val_loop"
  /\ vbatch < NumValBatches
  /\ \E l \in 1..MaxLoss : val_loss' = val_loss + l
  /\ total_toks' = total_toks + batch_toks
  /\ total_seqs' = total_seqs + batch_seqs
  /\ vbatch' = vbatch + 1
  /\ UNCHANGED acc_loss
  /\ UNCHANGED <<prog, pc, n_epochs, epoch, batch, grad, grad_src, params, opt_steps,
                 best_val_loss, val_hist, saved_at, mainVars, ckpVars, runVars,
                 translateVars>>

\* the validation loop left after its first batch
Main_val_done_early ==
  /\ prog = "train_py" /\ pc = "val_loop"
  /\ vbatch >= 1
  /\ pc' = "save_best"
  /\ UNCHANGED <<prog, n_epochs, trainVars, mainVars, ckpVars, runVars, translateVars>>
  /\ UNCHANGED accVars

\* train.py:133  validation batches exhausted
Main_val_done ==
  /\ prog = "train_py" /\ pc = "val_loop"
  /\ vbatch = NumValBatches
  /\ pc' = "save_best"
  /\ UNCHANGED <<prog, n_epochs, trainVars, mainVars, ckpVars, runVars, translateVars>>
  /\ UNCHANGED accVars

\* train.py:152-162  save best model / patience / early stopping
\* (the prints of 164-175 follow when the loop is not left)
Main_save_best ==
  /\ prog = "train_py" /\ pc = "save_best"
  /\ IF Main_improved(val_loss, best_val_loss)
       THEN /\ best_val_loss' = val_loss
            /\ model_pkl' = [st |-> "complete", data |-> 0, params |-> params]
            /\ saved_at' = saved_at \cup {epoch}
            /\ UNCHANGED <<patience, exit_via>>
            /\ pc' = "for_epoch"
       ELSE /\ patience' = patience + 1
            /\ IF Main_should_break(patience', args_patience)
                 THEN pc' = "done" /\ exit_via' = "break"
                 ELSE pc' = "for_epoch" /\ UNCHANGED exit_via
            /\ UNCHANGED <<best_val_loss, model_pkl, saved_at>>
  /\ val_hist' = Append(val_hist, val_loss)
  /\ patience_hist' = Append(patience_hist, patience')
  /\ UNCHANGED <<prog, n_epochs, args_patience, epoch, batch, vbatch, grad, grad_src,
                 params, opt_steps, val_loss, ckpVars, runVars, translateVars>>
  /\ UNCHANGED accVars

MainNext ==
  \/ Main_for_epoch
  \/ Main_for_exhausted
  \/ Main_train_batch
  \/ Main_zero_grad
  \/ Main_backward
  \/ Main_clip
  \/ Main_step
  \/ Main_validation
  \/ Main_val_batch
  \/ Main_val_done
  \/ Main_save_best

\* train.py:96-103  state after construction: patience = 0, best = +inf
MainInit ==
  /\ prog = "train_py"
  /\ pc = "for_epoch"
  /\ n_epochs \in 0..MaxEpochs
  /\ args_patience \in 0..MaxPatience
  /\ epoch = 0 /\ batch = 0 /\ vbatch = 0
  /\ acc_loss = 0 /\ total_toks = 0 /\ total_seqs = 0
  /\ grad = 0 /\ grad_src = {}
  /\ params = 0 /\ opt_steps = 0
  /\ val_loss = 0
  /\ best_val_loss = Inf
  /\ patience = 0
  /\ exit_via = "none"
  /\ model_pkl = NoFile
  /\ val_hist = <<>> /\ patience_hist = <<>> /\ saved_at = {}
  /\ data = 0 /\ best_val_loss_epoch = 0
  /\ model_dict_pkl = NoFile /\ model_pth = NoFile
  /\ meta_writes = 0 /\ pth_writes = 0
  /\ t_N = 0 /\ output_seqs = <<>> /\ decoded = 0
  /\ sink = <<>> /\ sink_opened = FALSE /\ err = "none"


(* ======================================================================= *)
(*  solver.py  Solver                                                      *)
(* ======================================================================= *)

\* len(src.vocab), len(trg.vocab) of a corpus: corpora 1 and 2 have
\* vocabularies of different sizes, corpora 1 and 3 of the same size.
VocabDim(d) == d % 2

\* the comparison written with <=
Solver_improved_or_tied(v, best) == v <= best

\* solver.py:92   if val_loss < best_val_loss
Solver_improved(v, best) == v < best

\* solver.py:86   for epoch in range(self.args.n_epochs): another epoch is left
Solver_range_has_next(e, n) == e < n

\* solver.py:157  return epoch_loss / len(iterator)
Solver_validate_result(epoch_loss, n) == epoch_loss \div n

\* The memory of a process that ends is gone: only the checkpoint files stay.
ProcessEnds ==
  /\ epoch' = 0 /\ batch' = 0 /\ vbatch' = 0
  /\ acc_loss' = 0 /\ total_toks' = 0 /\ total_seqs' = 0
  /\ grad' = 0 /\ grad_src' = {}
  /\ params' = 0 /\ opt_steps' = 0
  /\ val_loss' = 0 /\ best_val_loss' = Inf
  /\ val_hist' = <<>> /\ saved_at' = {}
  /\ data' = 0 /\ best_val_loss_epoch' = 0
  /\ meta_writes' = 0 /\ pth_writes' = 0

SolverTraining ==
  {"pickle_dump", "train", "for_epoch", "train_loop", "zero_grad", "backward", "clip",
   "step", "val_loop", "compare", "torch_save"}

\* solver.py:33-79 (up to the open() of line 79): data, vocabulary, model,
\* optimizer; model_dict.pkl is opened for writing, which truncates it.
Solver_init_training ==
  /\ prog = "solver" /\ pc = "idle"
  /\ \E d \in 1..NumDatasets : data' = d
  /\ params' = 0 /\ opt_steps' = 0
  /\ grad' = 0 /\ grad_src' = {}
  /\ epoch' = 0 /\ batch' = 0 /\ vbatch' = 0 /\ val_loss' = 0
  /\ acc_loss' = 0 /\ total_toks' = 0 /\ total_seqs' = 0
  /\ best_val_loss' = Inf /\ best_val_loss_epoch' = 0
  /\ val_hist' = <<>> /\ saved_at' = {}
  /\ model_dict_pkl' = [st |-> "partial", data |-> 0, params |-> 0]
  /\ meta_writes' = 1 /\ pth_writes' = 0
  /\ pc' = "pickle_dump"
  /\ UNCHANGED <<prog, n_epochs, mainVars, model_pth, translateVars>>

\* solver.py:79  pickle.dump(model_dict, ...): the bundle is written through
Solver_pickle_dump ==
  /\ prog = "solver" /\ pc = "pickle_dump"
  /\ model_dict_pkl' = [st |-> "complete", data |-> data, params |-> 0]
  /\ pc' = "train"
  /\ UNCHANGED <<prog, n_epochs, trainVars, mainVars, model_pth, runVars, translateVars>>
  /\ UNCHANGED accVars

\* solver.py:81-85  Solver.train: best_val_loss = inf, best_val_loss_epoch = 0
Solver_train ==
  /\ prog = "solver" /\ pc = "train"
  /\ best_val_loss' = Inf
  /\ best_val_loss_epoch' = 0
  /\ pc' = "for_epoch"
  /\ UNCHANGED <<prog, n_epochs, epoch, batch, vbatch, grad, grad_src, params, opt_steps,
                 val_loss, val_hist, saved_at, mainVars, ckpVars, data, meta_writes,
                 pth_writes, translateVars>>
  /\ UNCHANGED accVars

\* solver.py:86-89, 105-109  next epoch: train_epoch() begins, epoch_loss = 0
\* (acc_loss is train_epoch's epoch_loss)
Solver_for_epoch ==
  /\ prog = "solver" /\ pc = "for_epoch"
  /\ Solver_range_has_next(epoch, n_epochs)
  /\ epoch' = epoch + 1
  /\ batch' = 0
  /\ acc_loss' = 0
  /\ UNCHANGED <<total_toks, total_seqs>>
  /\ pc' = "train_loop"
  /\ UNCHANGED <<prog, n_epochs, vbatch, grad, grad_src, params, opt_steps, val_loss,
                 best_val_loss, val_hist, saved_at, mainVars, ckpVars, runVars,
                 translateVars>>

\* solver.py:86  range exhausted: Solver.train returns and the process ends
Solver_for_exhausted ==
  /\ prog = "solver" /\ pc = "for_epoch"
  /\ ~Solver_range_has_next(epoch, n_epochs)
  /\ pc' = "idle"
  /\ ProcessEnds
  /\ UNCHANGED <<prog, n_epochs, mainVars, ckpVars, translateVars>>

\* solver.py:110-120  next training batch: forward pass
Solver_train_batch ==
  /\ prog = "solver" /\ pc = "train_loop"
  /\ batch < NumTrainBatches
  /\ batch' = batch + 1
  /\ pc' = "zero_grad"
  /\ UNCHANGED <<prog, n_epochs, epoch, vbatch, grad, grad_src, params, opt_steps,
                 val_loss, best_val_loss, val_hist, saved_at, mainVars, ckpVars,
                 runVars, translateVars>>
  /\ UNCHANGED accVars

\* solver.py:122  self.optimizer.zero_grad()
Solver_zero_grad ==
  /\ prog = "solver" /\ pc = "zero_grad"
  /\ grad' = zero_grad(grad)
  /\ grad_src' = IF grad' = 0 THEN {} ELSE grad_src
  /\ pc' = "backward"
  /\ UNCHANGED <<prog, n_epochs, epoch, batch, vbatch, params, opt_steps, val_loss,
                 best_val_loss, val_hist, saved_at, mainVars, ckpVars, runVars,
                 translateVars>>
  /\ UNCHANGED accVars

\* solver.py:123-124  loss = criterion(...); loss.backward()
Solver_backward ==
  /\ prog = "solver" /\ pc = "backward"
  /\ \E g \in 1..MaxGrad : grad' = backward(grad, g)
  /\ grad_src' = grad_src \cup {<<epoch, batch>>}
  /\ pc' = "clip"
  /\ UNCHANGED <<prog, n_epochs, epoch, batch, vbatch, params, opt_steps, val_loss,
                 best_val_loss, val_hist, saved_at, mainVars, ckpVars, runVars,
                 translateVars>>
  /\ UNCHANGED accVars

\* solver.py:125  clip_grad_norm_(self.model.parameters(), self.args.clip)
Solver_clip ==
  /\ prog = "solver" /\ pc = "clip"
  /\ grad' = clip_grad_norm_(grad, args_grad_clip)
  /\ pc' = "step"
  /\ UNCHANGED <<prog, n_epochs, epoch, batch, vbatch, grad_src, params, opt_steps,
                 val_loss, best_val_loss, val_hist, saved_at, mainVars, ckpVars,
                 runVars, translateVars>>
  /\ UNCHANGED accVars

\* solver.py:126-135  self.optimizer.step(); epoch_loss += loss.item()
Solver_step ==
  /\ prog = "solver" /\ pc = "step"
  /\ params' = params + 1
  /\ opt_steps' = opt_steps + 1
  /\ acc_loss' = acc_loss + train_loss_item
  /\ UNCHANGED <<total_toks, total_seqs>>
  /\ pc' = "train_loop"
  /\ UNCHANGED <<prog, n_epochs, epoch, batch, vbatch, grad, grad_src, val_loss,
                 best_val_loss, val_hist, saved_at, mainVars, ckpVars, runVars,
                 translateVars>>

\* solver.py:137, 90, 139-142  train_epoch returns; validate(): model.eval(),
\* epoch_loss = 0
Solver_validate ==
  /\ prog = "solver" /\ pc = "train_loop"
  /\ batch = NumTrainBatches
  /\ val_loss' = 0
  /\ vbatch' = 0
  /\ pc' = "val_loop"
  /\ UNCHANGED <<prog, n_epochs, epoch, batch, grad, grad_src, params, opt_steps,
                 best_val_loss, val_hist, saved_at, mainVars, ckpVars, runVars,
                 translateVars>>
  /\ UNCHANGED accVars

\* a validation batch that also applies an optimizer step
Solver_val_batch_updating ==
  /\ prog = "solver" /\ pc = "val_loop"
  /\ vbatch < NumValBatches
  /\ \E l \in 1..MaxLoss : val_loss' = val_loss + NumValBatches * l
  /\ vbatch' = vbatch + 1
  /\ params' = params + 1
  /\ opt_steps' = opt_steps + 1
  /\ UNCHANGED <<prog, pc, n_epochs, epoch, batch, grad, grad_src,
                 best_val_loss, val_hist, saved_at, mainVars, ckpVars, runVars,
                 translateVars>>
  /\ UNCHANGED accVars

\* solver.py:143-156  one validation batch under torch.no_grad():
\* epoch_loss += loss.item().  Batch losses are drawn from the multiples of
\* len(iterator), so that the mean of line 157 is an integer.
Solver_val_batch ==
  /\ prog = "solver" /\ pc = "val_loop"
  /\ vbatch < NumValBatches
  /\ \E l \in 1..MaxLoss : val_loss' = val_loss + NumValBatches * l
  /\ vbatch' = vbatch + 1
  /\ UNCHANGED <<prog, pc, n_epochs, epoch, batch, grad, grad_src, params, opt_steps,
                 best_val_loss, val_hist, saved_at, mainVars, ckpVars, runVars,
                 translateVars>>
  /\ UNCHANGED accVars

\* solver.py:157, 90  validate returns epoch_loss / len(iterator)
Solver_val_done ==
  /\ prog = "solver" /\ pc = "val_loop"
  /\ vbatch = NumValBatches
  /\ val_loss' = Solver_validate_result(val_loss, NumValBatches)
  /\ pc' = "compare"
  /\ UNCHANGED <<prog, n_epochs, epoch, batch, vbatch, grad, grad_src, params, opt_steps,
                 best_val_loss, val_hist, saved_at, mainVars, ckpVars, runVars,
                 translateVars>>
  /\ UNCHANGED accVars

\* solver.py:92-95 (up to the open of model.pth inside torch.save, which
\* truncates the file), 97-102 when there is no improvement
Solver_compare ==
  /\ prog = "solver" /\ pc = "compare"
  /\ IF Solver_improved(val_loss, best_val_loss)
       THEN /\ best_val_loss' = val_loss
            /\ best_val_loss_epoch' = epoch - 1
            /\ model_pth' = [st |-> "partial", data |-> 0, params |-> 0]
            /\ pth_writes' = pth_writes + 1
            /\ saved_at' = saved_at \cup {epoch}
            /\ pc' = "torch_save"
       ELSE /\ pc' = "for_epoch"
            /\ UNCHANGED <<best_val_loss, best_val_loss_epoch, model_pth, pth_writes,
                           saved_at>>
  /\ val_hist' = Append(val_hist, val_loss)
  /\ UNCHANGED <<prog, n_epochs, epoch, batch, vbatch, grad, grad_src, params, opt_steps,
                 val_loss, mainVars, model_dict_pkl, data, meta_writes,
                 translateVars>>
  /\ UNCHANGED accVars

\* solver.py:95, 97-102  torch.save writes the state_dict through
Solver_torch_save ==
  /\ prog = "solver" /\ pc = "torch_save"
  /\ model_pth' = [st |-> "complete", data |-> data, params |-> params]
  /\ pc' = "for_epoch"
  /\ UNCHANGED <<prog, n_epochs, trainVars, mainVars, model_dict_pkl, runVars,
                 translateVars>>
  /\ UNCHANGED accVars

\* The operator aborts the training process (no timeout handling: the
\* checkpoint files stay as they are).
Solver_abort ==
  /\ prog = "solver" /\ pc \in SolverTraining
  /\ pc' = "idle"
  /\ ProcessEnds
  /\ UNCHANGED <<prog, n_epochs, mainVars, ckpVars, translateVars>>

(* ----------------------------- Solver.translate ------------------------ *)

\* test_data_loader(fh, source_vocab, batch_size): the k-th batch holds the
\* examples (k-1)*batch_size+1 .. k*batch_size of the test source, in input
\* order (the last batch may be shorter).
NumBatches(n, bs) == (n + bs - 1) \div bs
test_batch(k, n, bs) == [i \in 1..(Min(k * bs, n) - (k - 1) * bs) |-> (k - 1) * bs + i]

\* model.translate(batch.src, sos_tok): the greedy decode of one example,
\* a sequence of target-vocabulary ids.
model_translate(ex) == <<ex, ex + 1>>

\* solver.py:187  trg.vocab.itos[tok]: the token spelled for an id
itos(tok) == <<"tok", tok>>
Space == <<" ", 0>>

\* solver.py:190  detokenize = lambda x: ' '.join(x)
RECURSIVE detokenize(_)
detokenize(x) ==
  IF Len(x) = 0 THEN <<>>
  ELSE IF Len(x) = 1 THEN <<x[1]>>
  ELSE <<x[1], Space>> \o detokenize(Tail(x))

\* solver.py:187-191  ids -> tokens -> one line
output_line(ids) == detokenize([j \in 1..Len(ids) |-> itos(ids[j])])

\* load_state_dict that checks no shape
state_dict_unchecked(meta, pth) == TRUE

\* solver.py:172  load_state_dict (strict): the parameter shapes of the
\* checkpoint must be those of the model built from the metadata
state_dict_fits(meta, pth) == VocabDim(meta.data) = VocabDim(pth.data)

\* solver.py:159-168  pickle.load of model_dict.pkl, the test iterator, the
\* model built from the recorded dimensions
Solver_translate_load_dict ==
  /\ prog = "solver" /\ pc = "idle"
  /\ \E n \in 0..MaxExamples : t_N' = n
  /\ output_seqs' = <<>> /\ decoded' = 0
  /\ IF model_dict_pkl.st = "absent"
       THEN pc' = "translate_failed" /\ err' = "FileNotFoundError"
       ELSE IF model_dict_pkl.st = "partial"
         THEN pc' = "translate_failed" /\ err' \in {"EOFError", "UnpicklingError"}
         ELSE pc' = "load_ckp" /\ UNCHANGED err
  /\ UNCHANGED <<prog, n_epochs, trainVars, mainVars, ckpVars, runVars, sink,
                 sink_opened>>
  /\ UNCHANGED accVars

\* solver.py:171-176  torch.load of model.pth, load_state_dict, sos token
Solver_translate_load_ckp ==
  /\ prog = "solver" /\ pc = "load_ckp"
  /\ IF model_pth.st = "absent"
       THEN pc' = "translate_failed" /\ err' = "FileNotFoundError"
       ELSE IF model_pth.st = "partial"
         THEN pc' = "translate_failed" /\ err' \in {"EOFError", "RuntimeError"}
         ELSE IF ~state_dict_fits(model_dict_pkl, model_pth)
           THEN pc' = "translate_failed" /\ err' = "RuntimeError"
           ELSE pc' = "decode" /\ UNCHANGED err
  /\ UNCHANGED <<prog, n_epochs, trainVars, mainVars, ckpVars, runVars, t_N, output_seqs,
                 decoded, sink, sink_opened>>
  /\ UNCHANGED accVars

\* solver.py:178-182  the first batch is decoded, then the loop is left (break)
Solver_translate_decode ==
  /\ prog = "solver" /\ pc = "decode"
  /\ NumBatches(t_N, args_batch_size) > 0
  /\ LET b == test_batch(1, t_N, args_batch_size)
     IN output_seqs' = output_seqs \o [i \in 1..Len(b) |-> model_translate(b[i])]
  /\ decoded' = decoded + 1
  /\ pc' = "write"
  /\ UNCHANGED <<prog, n_epochs, trainVars, mainVars, ckpVars, runVars, t_N, sink,
                 sink_opened, err>>
  /\ UNCHANGED accVars

\* solver.py:179  the test iterator yields no batch
Solver_translate_no_batch ==
  /\ prog = "solver" /\ pc = "decode"
  /\ NumBatches(t_N, args_batch_size) = 0
  /\ pc' = "write"
  /\ UNCHANGED <<prog, n_epochs, trainVars, mainVars, ckpVars, runVars, translateVars>>
  /\ UNCHANGED accVars

\* solver.py:184-198  tokens, detokenize, one line per sequence to data/output.en
Solver_translate_write ==
  /\ prog = "solver" /\ pc = "write"
  /\ sink' = [i \in 1..Len(output_seqs) |-> output_line(output_seqs[i])]
  /\ sink_opened' = TRUE
  /\ pc' = "translate_done"
  /\ UNCHANGED <<prog, n_epochs, trainVars, mainVars, ckpVars, runVars, t_N, output_seqs,
                 decoded, err>>
  /\ UNCHANGED accVars

SolverNext ==
  \/ Solver_init_training
  \/ Solver_pickle_dump
  \/ Solver_train
  \/ Solver_for_epoch
  \/ Solver_for_exhausted
  \/ Solver_train_batch
  \/ Solver_zero_grad
  \/ Solver_backward
  \/ Solver_clip
  \/ Solver_step
  \/ Solver_validate
  \/ Solver_val_batch
  \/ Solver_val_done
  \/ Solver_compare
  \/ Solver_torch_save
  \/ Solver_abort
  \/ Solver_translate_load_dict
  \/ Solver_translate_load_ckp
  \/ Solver_translate_decode
  \/ Solver_translate_no_batch
  \/ Solver_translate_write

\* solver.py:18-31  a fresh checkpoint directory, no process running yet
SolverInit ==
  /\ prog = "solver"
  /\ pc = "idle"
  /\ n_epochs \in 0..MaxEpochs
  /\ args_patience = 0
  /\ epoch = 0 /\ batch = 0 /\ vbatch = 0
  /\ acc_loss = 0 /\ total_toks = 0 /\ total_seqs = 0
  /\ grad = 0 /\ grad_src = {}
  /\ params = 0 /\ opt_steps = 0
  /\ val_loss = 0
  /\ best_val_loss = Inf
  /\ patience = 0
  /\ exit_via = "none"
  /\ model_pkl = NoFile
  /\ val_hist = <<>> /\ patience_hist = <<>> /\ saved_at = {}
  /\ data = 0 /\ best_val_loss_epoch = 0
  /\ model_dict_pkl = NoFile /\ model_pth = NoFile
  /\ meta_writes = 0 /\ pth_writes = 0
  /\ t_N = 0 /\ output_seqs = <<>> /\ decoded = 0
  /\ sink = <<>> /\ sink_opened = FALSE /\ err = "none"

Init == MainInit \/ SolverInit

Next == MainNext \/ SolverNext

Spec == Init /\ [][Next]_vars

\* The train.py loop alone, with the scheduling of a single-threaded script:
\* a step that can be taken is taken.
MainLive == MainInit /\ [][MainNext]_vars /\ WF_vars(MainNext)

(* ======================================================================= *)
(*  Properties                                                             *)
(* ======================================================================= *)

\* Best validation loss of the epochs before epoch i of a loss history.
RECURSIVE BestBefore(_, _)
BestBefore(h, i) == IF i <= 1 THEN Inf ELSE Min(BestBefore(h, i - 1), h[i - 1])

\* Consecutive epochs up to epoch i whose loss was above the best so far.
RECURSIVE Streak(_, _)
Streak(h, i) ==
  IF i = 0 THEN 0
  ELSE IF h[i] <= BestBefore(h, i) THEN 0 ELSE Streak(h, i - 1) + 1

StrictImprovements(h) == {i \in 1..Len(h) : h[i] < BestBefore(h, i)}
WeakImprovements(h) == {i \in 1..Len(h) : h[i] <= BestBefore(h, i)}

\* C1: in train.py the patience counter after every epoch's decision is the
\* number of consecutive non-improving epochs since the last improving one
\* (it is reset to zero by an improving epoch).
C1_PatienceIsStreak ==
  prog = "train_py" =>
    /\ Len(patience_hist) = Len(val_hist)
    /\ \A i \in 1..Len(patience_hist) : patience_hist[i] = Streak(val_hist, i)

\* C2 as stated: in both loops the parameter file is written at exactly the
\* epochs whose validation loss is strictly below the best of the earlier ones.
C2_PersistOnlyStrict == saved_at = StrictImprovements(val_hist)

\* C2 amended: Solver.train writes the parameter file at exactly the epochs
\* whose loss is strictly below the best of the earlier epochs; train.py
\* writes it at exactly the epochs whose loss is below OR EQUAL to that best.
C2_PersistAtImprovements ==
  /\ prog = "solver" => saved_at = StrictImprovements(val_hist)
  /\ prog = "train_py" => saved_at = WeakImprovements(val_hist)

C2_Witness ==
  /\ prog = "train_py"
  /\ Len(val_hist) = 3
  /\ val_hist[2] = val_hist[1]
  /\ val_hist[3] < val_hist[1]
  /\ saved_at = {1, 2, 3}

\* C3: in train.py, the step that brings the patience counter to the limit
\* ends the loop, and once the loop has ended no epoch, training batch or
\* validation batch is started.
C3_EarlyStop ==
  /\ [][(prog = "train_py" /\ patience' # patience /\ patience' >= args_patience)
          => pc' = "done"]_vars
  /\ [][(prog = "train_py" /\ pc = "done")
          => (pc' = "done" /\ UNCHANGED <<epoch, batch, vbatch, params, val_hist>>)]_vars

C3_Witness ==
  /\ prog = "train_py" /\ pc = "done" /\ exit_via = "break"
  /\ args_patience = 2 /\ epoch = 3 /\ n_epochs = 4
  /\ patience = args_patience

\* C4: Solver.translate writes exactly one line per test example, line i
\* being the detokenized decode of example i.
C4_OneLinePerExample ==
  (prog = "solver" /\ pc = "translate_done") =>
    /\ Len(sink) = t_N
    /\ \A i \in 1..Len(sink) : sink[i] = output_line(model_translate(i))

\* C5: whenever model_dict.pkl and model.pth are both in the checkpoint
\* directory, the parameters come from a model built from the vocabulary
\* recorded in that model_dict.pkl.
C5_CheckpointConsistent ==
  (model_dict_pkl.st = "complete" /\ model_pth.st = "complete")
    => model_pth.data = model_dict_pkl.data

\* C6: in a Solver run model_dict.pkl is written once, before any write of
\* model.pth, and not during the epochs; model.pth is written once per
\* strictly improving epoch and by no other step.
C6_WriteOrderingInv ==
  (prog = "solver" /\ pc \in SolverTraining) =>
    /\ meta_writes = 1
    /\ pth_writes = Cardinality(StrictImprovements(val_hist))
    /\ pc \in {"pickle_dump", "train"} => pth_writes = 0
    /\ pc # "pickle_dump" => model_dict_pkl = [st |-> "complete", data |-> data, params |-> 0]
\* C6, with the steps that may write each file: model.pth only by the
\* improving branch of Solver.train, model_dict.pkl only by init_training.
C6_WriteOrdering ==
  /\ []C6_WriteOrderingInv
  /\ [][model_pth' # model_pth => (pc \in {"compare", "torch_save"} /\ pc' # "idle")]_vars
  /\ [][model_dict_pkl' # model_dict_pkl => pc \in {"idle", "pickle_dump"}]_vars

C6_Witness ==
  /\ prog = "solver" /\ pc = "for_epoch"
  /\ Len(val_hist) = 3 /\ pth_writes = 2 /\ meta_writes = 1
  /\ model_pth.st = "complete"

CheckpointBad ==
  \/ model_dict_pkl.st # "complete"
  \/ model_pth.st # "complete"
  \/ VocabDim(model_dict_pkl.data) # VocabDim(model_pth.data)

InTranslate == pc \in {"load_ckp", "decode", "write", "translate_done", "translate_failed"}

C8_ValidationFrame ==
  [][((pc = "val_loop" /\ pc' # "idle") \/ (pc = "train_loop" /\ pc' = "val_loop"))
       => UNCHANGED <<params, opt_steps, grad, grad_src, best_val_loss, patience>>]_vars

C8_Witness ==
  /\ prog = "solver" /\ pc = "compare" /\ epoch = 2
  /\ vbatch = NumValBatches
  /\ params = 2 * NumTrainBatches /\ opt_steps = params

\* C9: in both loops every batch runs zero_grad, backward, clip, step in that
\* order: backward starts from a cleared gradient, the gradient the
\* optimizer step consumes is at most the clip threshold and stems from the
\* current batch alone, and one step is applied per batch.
C9_UpdateOrder ==
  /\ pc = "backward" => (grad = 0 /\ grad_src = {})
  /\ pc = "clip" => (grad >= 1 /\ grad_src = {<<epoch, batch>>})
  /\ pc = "step" =>
       (grad >= 1 /\ grad <= args_grad_clip /\ grad_src = {<<epoch, batch>>})
  /\ pc \in {"zero_grad", "backward", "clip", "step"} =>
       opt_steps = (epoch - 1) * NumTrainBatches + batch - 1

C9_Witness ==
  /\ prog = "train_py" /\ pc = "clip" /\ epoch = 2 /\ batch = 2
  /\ grad > args_grad_clip

\* C10: from best = +inf and patience = 0 the train.py loop runs at most
\* n_epochs epochs and ends, either by exhausting the epochs or by the break
\* taken when a non-improving epoch brings the counter to the limit.
C10_TerminationInv ==
  /\ epoch <= n_epochs /\ Len(val_hist) <= epoch
  /\ pc = "done" <=> exit_via # "none"
  /\ exit_via = "exhausted" =>
       /\ epoch = n_epochs /\ Len(val_hist) = n_epochs
       /\ \/ patience < args_patience
          \/ n_epochs = 0
          \/ val_hist[n_epochs] <= BestBefore(val_hist, n_epochs)
  /\ exit_via = "break" =>
       /\ Len(val_hist) = epoch /\ epoch >= 1
       /\ val_hist[epoch] > BestBefore(val_hist, epoch)
       /\ patience >= args_patience
\* C10: the bound and the two exits hold throughout, and the loop ends.
C10_Terminates == []C10_TerminationInv /\ <>(pc = "done")

C10_Witness ==
  /\ pc = "done" /\ exit_via = "exhausted"
  /\ n_epochs = 3 /\ patience > 0 /\ Cardinality(saved_at) = 2

\* C11: in train.py the stop decision is taken at an epoch boundary only:
\* when it is taken (and whenever an epoch has ended) every training batch
\* and every validation batch of every started epoch has been processed.
C11_EpochCompleteInv ==
  (prog = "train_py" /\ epoch >= 1 /\ pc \in {"save_best", "for_epoch", "done"}) =>
    /\ batch = NumTrainBatches
    /\ vbatch = NumValBatches
    /\ opt_steps = epoch * NumTrainBatches
    /\ Len(val_hist) = (IF pc = "save_best" THEN epoch - 1 ELSE epoch)

\* C11, with the steps involved: the loop is left only by the decision step
\* or by the loop head, and only the decision step moves the patience counter.
C11_StopOnlyAtEpochBoundary ==
  /\ []C11_EpochCompleteInv
  /\ [][(prog = "train_py" /\ pc # "done" /\ pc' = "done")
          => pc \in {"save_best", "for_epoch"}]_vars
  /\ [][(prog = "train_py" /\ patience' # patience) => pc = "save_best"]_vars

C11_Witness ==
  /\ prog = "train_py" /\ pc = "done" /\ exit_via = "break"
  /\ n_epochs = 4 /\ epoch = 2
  /\ batch = NumTrainBatches /\ vbatch = NumValBatches
  /\ opt_steps = 2 * NumTrainBatches

\* Consecutive epochs up to epoch i whose loss was not strictly below the
\* best of the earlier epochs (the comparison of Solver.train).
RECURSIVE StrictStreak(_, _)
StrictStreak(h, i) ==
  IF i = 0 THEN 0
  ELSE IF h[i] < BestBefore(h, i) THEN 0 ELSE StrictStreak(h, i - 1) + 1

\* C12: Solver.train stops early: once the validation loss has failed to
\* improve for the patience limit (here MaxPatience) of consecutive epochs,
\* no further epoch is started.
C12_SolverStopsEarly ==
  (prog = "solver" /\ Len(val_hist) >= 1
     /\ StrictStreak(val_hist, Len(val_hist)) >= MaxPatience)
    => epoch = Len(val_hist)

LoopPositions ==
  {"for_epoch", "train_loop", "zero_grad", "backward", "clip", "step", "val_loop",
   "save_best", "compare", "torch_save", "done"}

\* C13: in both loops the running loss, token count and sequence count are
\* zero when a training pass and when a validation pass begins, and during a
\* pass they hold the sums over the batches of this pass alone.
C13_AccumulatorsInv ==
  /\ (pc = "train_loop" /\ batch = 0) =>
       (acc_loss = 0 /\ total_toks = 0 /\ total_seqs = 0)
  /\ (pc = "val_loop" /\ vbatch = 0) =>
       (val_loss = 0 /\ total_toks = 0 /\ total_seqs = 0)
  /\ pc = "train_loop" =>
       /\ acc_loss = batch * train_loss_item
       /\ prog = "train_py" =>
            (total_seqs = batch * batch_seqs /\ total_toks = batch * batch_toks)
  /\ (pc = "val_loop" /\ prog = "train_py") =>
       /\ val_loss >= vbatch /\ val_loss <= vbatch * MaxLoss
       /\ total_seqs = vbatch * batch_seqs /\ total_toks = vbatch * batch_toks
  /\ (pc = "val_loop" /\ prog = "solver") =>
       /\ val_loss >= vbatch * NumValBatches
       /\ val_loss <= vbatch * NumValBatches * MaxLoss

\* C13, with the steps involved: between the epochs the best-loss record is
\* never set back (it only decreases) and the patience counter never
\* restarts (it only grows).
C13_AccumulatorsReset ==
  /\ []C13_AccumulatorsInv
  /\ [][(pc \in LoopPositions /\ pc' \in LoopPositions)
          => (best_val_loss' <= best_val_loss /\ patience' >= patience)]_vars

C13_Witness ==
  /\ prog = "train_py" /\ pc = "train_loop" /\ epoch = 3 /\ batch = 0
  /\ acc_loss = 0 /\ total_toks = 0 /\ total_seqs = 0
  /\ best_val_loss < Inf /\ patience = 1

\* Smallest validation loss of a loss history.
MinOf(h) == BestBefore(h, Len(h) + 1)

\* The parameter file of the running program.
ParamFile == IF prog = "train_py" THEN model_pkl ELSE model_pth

\* C14: in both loops, after every completed epoch decision the best-loss
\* record is the minimum of the validation losses so far, and the parameter
\* file holds the parameters as they were at the end of an epoch whose loss
\* is that minimum (also when train.py has stopped early).
C14_BestIsMinimum ==
  (Len(val_hist) >= 1 /\ pc \in {"for_epoch", "done"}) =>
    /\ best_val_loss = MinOf(val_hist)
    /\ ParamFile.st = "complete"
    /\ prog = "solver" => ParamFile.data = data
    /\ \E e \in 1..Len(val_hist) :
         /\ val_hist[e] = MinOf(val_hist)
         /\ ParamFile.params = e * NumTrainBatches

C14_Witness ==
  /\ prog = "train_py" /\ pc = "done" /\ exit_via = "break"
  /\ epoch = 4 /\ Len(val_hist) = 4
  /\ val_hist[2] < val_hist[1] /\ val_hist[3] > val_hist[2] /\ val_hist[4] > val_hist[2]
  /\ best_val_loss = val_hist[2]
  /\ model_pkl.params = 2 * NumTrainBatches

\* C15: in both loops, for n_epochs >= 1, the first epoch writes the
\* parameter file whatever the patience limit, so the file is there when
\* training ends either way, and train.py never stops early at epoch 1.
C15_FirstEpochPersists ==
  /\ Len(val_hist) >= 1 => 1 \in saved_at
  /\ (Len(val_hist) >= 1 /\ pc \in {"for_epoch", "done"}) =>
       (ParamFile.st = "complete" /\ ParamFile.params >= NumTrainBatches)
  /\ (prog = "train_py" /\ pc = "done" /\ n_epochs >= 1) =>
       (model_pkl.st = "complete" /\ Len(val_hist) >= 1)
  /\ (prog = "solver" /\ pc = "for_epoch" /\ n_epochs >= 1 /\ epoch = n_epochs) =>
       (model_pth.st = "complete" /\ model_pth.data = data)
  /\ exit_via = "break" => (epoch >= 2 /\ patience_hist[1] = 0)

C15_Witness ==
  /\ prog = "train_py" /\ pc = "done" /\ exit_via = "break"
  /\ args_patience = 0 /\ epoch = 2
  /\ saved_at = {1}
  /\ model_pkl.params = NumTrainBatches

====
